---- MODULE Spec2Model ----
(***************************************************************************)
(* Verification model of copulae's _DataMixin (copula/extensions/_common.py) *)
(* and of the quantile decorator (elliptical/decorators.py).               *)
(***************************************************************************)
EXTENDS Integers, Sequences, FiniteSets, TLC

VARIABLES
    qpc,   \* how far the use of quantile(dist) got
    dist,  \* the argument of quantile
    call   \* the call of with_quantile: x, q, what func returned, the result

quantVars == <<qpc, dist, call>>

VARIABLES
    ipc,     \* "ready" before the form_interpolator call, "done" after it
    inp,     \* the arguments of the call
    param0,  \* history: the copula's shape parameter before the call
    param,   \* the copula's shape parameter
    log,     \* history: the _set_param and copula.random calls of the call
    out      \* what the call raised or handed to UnivariateSpline

interpVars == <<ipc, inp, param0, param, log, out>>

VARIABLES
    file,        \* data_funcs.p: [exists, blob]; blob is the pickled dict
    _meta_data,  \* self._meta_data of every instance
    pc,          \* position of every instance inside save_copula_data
    func_dict,   \* the local func_dict of a running save_copula_data
    args,        \* (func_name, func) of a running save_copula_data
    atInit,      \* history: the file as it was when the instance was constructed
    lastSaved,   \* history: name -> callable of the most recently completed save
    missed,      \* history: names written by other saves since this save loaded
    interleaved, \* history: some save started while another was running
    nsaves       \* history: number of save_copula_data calls started

storeVars == <<file, _meta_data, pc, func_dict, args, atInit, lastSaved, missed, interleaved, nsaves>>

\* an empty Python dict
EmptyDict == [k \in {} |-> "f"]

\* out and call before form_interpolator and with_quantile are called
NoOut == [status |-> "none", raw |-> <<>>, grid |-> <<>>, x |-> <<>>, y |-> <<>>, w |-> <<>>, k |-> 0]

NoCall == [x |-> <<>>, q |-> <<>>, ret |-> <<>>, result |-> <<>>]

(***************************************************************************)
(* Part 1: the function store of _DataMixin (data_funcs.p)                 *)
(***************************************************************************)

\* number of _DataMixin instances (threads/processes) sharing data_funcs.p
NumInst == 2
Inst == 1..NumInst
\* func_name keys and the callables stored under them
Names == {"rho", "tau"}
Funcs == {"f", "g"}
\* save_copula_data calls in one run
MaxSaves == 3

NoArgs == <<"", "">>

\* d[k] = v on a Python dict
setitem(d, k, v) == [x \in DOMAIN d \cup {k} |-> IF x = k THEN v ELSE d[x]]

\* pickle.dump of a dict: the serialized items
pickle_dump(d) == {<<k, d[k]>> : k \in DOMAIN d}

\* pickle.load: rebuilds the dict from the serialized items
pickle_load(blob) == [k \in {p[1] : p \in blob} |-> (CHOOSE p \in blob : p[1] = k)[2]]

file_exists == file.exists

_load_func_dict == IF ~file_exists THEN EmptyDict ELSE pickle_load(file.blob)

\* a load that reads the file instead of self._meta_data
load_copula_data_file(i, func_name) ==
    IF func_name \in DOMAIN _load_func_dict THEN _load_func_dict[func_name] ELSE "KeyError"

\* load_copula_data: self._meta_data[func_name]
load_copula_data(i, func_name) ==
    IF func_name \in DOMAIN _meta_data[i] THEN _meta_data[i][func_name] ELSE "KeyError"

\* __init__: a (new) instance loads the store once
__init__(i) ==
    /\ pc[i] = "idle"
    /\ _meta_data' = [_meta_data EXCEPT ![i] = _load_func_dict]
    /\ atInit' = [atInit EXCEPT ![i] = file]
    /\ UNCHANGED <<file, pc, func_dict, args, lastSaved, missed, interleaved, nsaves>>
    /\ UNCHANGED <<interpVars, quantVars>>

\* a save that merges into the instance's own store instead of reloading the file
save_loaded_stale(i) == _meta_data[i]

\* save_copula_data, line 61: the dictionary the save starts from
save_loaded(i) == _load_func_dict

\* a save that reads the file again when it writes
save_merged_reload(i) == setitem(_load_func_dict, args[i][1], args[i][2])

\* save_copula_data, line 62: the dictionary the save writes
save_merged(i) == setitem(func_dict[i], args[i][1], args[i][2])

\* save_copula_data, first half: func_dict = self._load_func_dict()
save_copula_data_load(i, func_name, func) ==
    /\ pc[i] = "idle"
    /\ nsaves < MaxSaves
    /\ nsaves' = nsaves + 1
    /\ func_dict' = [func_dict EXCEPT ![i] = save_loaded(i)]
    /\ args' = [args EXCEPT ![i] = <<func_name, func>>]
    /\ pc' = [pc EXCEPT ![i] = "loaded"]
    /\ missed' = [missed EXCEPT ![i] = {}]
    /\ interleaved' = (interleaved \/ \E j \in Inst : pc[j] = "loaded")
    /\ UNCHANGED <<file, _meta_data, atInit, lastSaved>>
    /\ UNCHANGED <<interpVars, quantVars>>

\* save_copula_data, second half: func_dict[func_name] = func; pickle.dump
save_copula_data_write(i) ==
    /\ pc[i] = "loaded"
    /\ file' = [exists |-> TRUE, blob |-> pickle_dump(save_merged(i))]
    /\ pc' = [pc EXCEPT ![i] = "idle"]
    /\ func_dict' = [func_dict EXCEPT ![i] = EmptyDict]
    /\ args' = [args EXCEPT ![i] = NoArgs]
    /\ lastSaved' = setitem(lastSaved, args[i][1], args[i][2])
    /\ missed' = [j \in Inst |-> IF j # i /\ pc[j] = "loaded"
                                 THEN missed[j] \cup {args[i][1]} ELSE {}]
    /\ UNCHANGED <<_meta_data, atInit, interleaved, nsaves>>
    /\ UNCHANGED <<interpVars, quantVars>>

StoreInit ==
    /\ file = [exists |-> FALSE, blob |-> {}]
    /\ _meta_data = [i \in Inst |-> EmptyDict]
    /\ pc = [i \in Inst |-> "idle"]
    /\ func_dict = [i \in Inst |-> EmptyDict]
    /\ args = [i \in Inst |-> NoArgs]
    /\ atInit = [i \in Inst |-> [exists |-> FALSE, blob |-> {}]]
    /\ lastSaved = EmptyDict
    /\ missed = [i \in Inst |-> {}]
    /\ interleaved = FALSE
    /\ nsaves = 0
    /\ ipc = "idle" /\ inp = <<>> /\ param0 = 0 /\ param = 0
    /\ log = <<>> /\ out = NoOut
    /\ qpc = "idle" /\ dist = <<>> /\ call = NoCall

StoreNext ==
    \/ \E i \in Inst : __init__(i)
    \/ \E i \in Inst, n \in Names, f \in Funcs : save_copula_data_load(i, n, f)
    \/ \E i \in Inst : save_copula_data_write(i)


(***************************************************************************)
(* Part 2: _DataMixin.form_interpolator                                    *)
(***************************************************************************)

\* longest theta_grid and longest param_known / values_known
MaxGrid == 3
MaxKnown == 1
\* self.nsim, and the spline weight of a known point
nsim == 50000
AnchorWeight == 999

\* theta values; correlation estimates and known values are counted in
\* quarters (2 is 0.5, 4 is 1.0), so that halving an estimate is exact
ThetaVals == {-1, 0, 1}
EstVals == {-2, 2}
KnownVals == {-4, 4}
DfVals == {0, 3, 9}

\* strings are sequences of characters
Upper == <<"A","B","C","D","E","F","G","H","I","J","K","L","M",
           "N","O","P","Q","R","S","T","U","V","W","X","Y","Z">>
Lower == <<"a","b","c","d","e","f","g","h","i","j","k","l","m",
           "n","o","p","q","r","s","t","u","v","w","x","y","z">>

CaseMap == [c \in {Upper[i] : i \in 1..Len(Upper)} |->
                Lower[CHOOSE i \in 1..Len(Upper) : Upper[i] = c]]

lower_char(c) == IF c \in DOMAIN CaseMap THEN CaseMap[c] ELSE c

\* str.lower()
lower(str) == [i \in 1..Len(str) |-> lower_char(str[i])]

Spearman == <<"s","p","e","a","r","m","a","n">>
Kendall == <<"k","e","n","d","a","l","l">>

\* the method arguments tried
Methods == { Spearman,
             <<"K","E","N","D","A","L","L">>,
             <<"p","e","a","r","s","o","n">>,
             <<"S","P","E","A","R","M","A","N","N">> }

Range(seq) == {seq[i] : i \in 1..Len(seq)}

SeqsUpTo(S, lo, hi) == UNION {[1..n -> S] : n \in lo..hi}

\* a test of the method as given, without lower-casing it
valid_method_as_given(method) == method \in {Spearman, Kendall}

\* lines 106-107: the test of the lower-cased method
valid_method(method) == lower(method) \in {Spearman, Kendall}

\* the reparametrization of the copula family (a hook of the subclass)
_backward_transfer(x) == [i \in 1..Len(x) |-> 2 * x[i] + 1]

\* the subclass's _set_param: the copula's shape parameter becomes alpha
_set_param(st, alpha) ==
    [st EXCEPT !.param = alpha, !.log = Append(st.log, <<"_set_param", alpha>>)]

\* tau_rho_sample: one copula.random(nsim), then the correlation of the rows
\* without NaN; r is the estimate the sample gives
tau_rho_sample(st, r) ==
    [st EXCEPT !.log = Append(st.log, <<"random", nsim>>),
               !.results = Append(st.results, r)]

\* a loop body that samples before it sets the parameter
_get_grid_body_sample_first(st, alpha, r) == _set_param(tau_rho_sample(st, r), alpha)

\* lines 135-136: the body of the loop of _get_grid
_get_grid_body(st, alpha, r) == tau_rho_sample(_set_param(st, alpha), r)

RECURSIVE _get_grid_from(_, _, _, _)
_get_grid_from(st, alpha_grid, est, i) ==
    IF i > Len(alpha_grid) THEN st
    ELSE _get_grid_from(_get_grid_body(st, alpha_grid[i], est[i]), alpha_grid, est, i + 1)

_get_grid(p, alpha_grid, est) ==
    _get_grid_from([param |-> p, log |-> <<>>, results |-> <<>>], alpha_grid, est, 1)

sign(x) == IF x > 0 THEN 1 ELSE IF x < 0 THEN -1 ELSE 0
abs(x) == IF x < 0 THEN -x ELSE x

\* line 114: np.sign(theta_grid) * np.abs(grid) + np.abs(grid[::-1]) / 2
symmetrized(theta_grid, grid) ==
    [i \in 1..Len(grid) |->
        (sign(theta_grid[i]) * abs(grid[i])) + (abs(grid[Len(grid) + 1 - i]) \div 2)]

\* a mask that keeps every grid point
good_all(theta_grid, param_known) == [i \in 1..Len(theta_grid) |-> TRUE]

\* line 116: ~np.isin(theta_grid, param_known)
good(theta_grid, param_known) ==
    [i \in 1..Len(theta_grid) |-> theta_grid[i] \notin Range(param_known)]

RECURSIVE take(_, _)
\* a[mask]
take(a, mask) ==
    IF Len(a) = 0 THEN <<>>
    ELSE (IF Head(mask) THEN <<Head(a)>> ELSE <<>>) \o take(Tail(a), Tail(mask))

repeat(v, n) == [i \in 1..n |-> v]

\* param.argsort(): the order of equal keys is not fixed by the sort used;
\* ties tells whether equal keys keep their order or come out reversed
argsort(a, ties) ==
    LET before(j, i) == IF ties = "kept" THEN j < i ELSE j > i
        rank(i) == 1 + Cardinality({j \in 1..Len(a) : a[j] < a[i] \/ (a[j] = a[i] /\ before(j, i))})
    IN [r \in 1..Len(a) |-> CHOOSE i \in 1..Len(a) : rank(i) = r]

\* a[sort_index]
reorder(a, sort_index) == [r \in 1..Len(sort_index) |-> a[sort_index[r]]]

\* line 129
clamp_df(df) == IF df < 1 THEN 1 ELSE IF df > 5 THEN 5 ELSE df

\* lines 113-114: the estimates the points are taken from
grid_used(theta_grid, results, symmetrize) ==
    IF symmetrize THEN symmetrized(theta_grid, results) ELSE results

\* form_interpolator with a method it rejects
form_interpolator_raise ==
    /\ ipc = "ready"
    /\ ~valid_method(inp.method)
    /\ ipc' = "done"
    /\ out' = [NoOut EXCEPT !.status = "ValueError"]
    /\ log' = <<>>
    /\ UNCHANGED <<inp, param0, param>>
    /\ UNCHANGED <<storeVars, quantVars>>

\* form_interpolator with a method it accepts; est are the estimates the
\* samples give, ties the order argsort leaves equal parameters in
form_interpolator ==
    /\ ipc = "ready"
    /\ valid_method(inp.method)
    /\ \E gd \in {good(inp.theta_grid, inp.param_known)} :
       \E prm \in {inp.param_known \o take(inp.theta_grid, gd)} :
       \E w \in {repeat(AnchorWeight, Len(inp.values_known)) \o repeat(1, Len(take(gd, gd)))} :
       \E ties \in {"kept", "reversed"} :
       \E sort_index \in {argsort(prm, ties)} :
       \E est \in [1..Len(inp.theta_grid) -> EstVals] :
       \E run \in {_get_grid(param, _backward_transfer(inp.theta_grid), est)} :
       \E grid \in {grid_used(inp.theta_grid, run.results, inp.symmetrize)} :
       \E values \in {inp.values_known \o take(grid, gd)} :
          /\ param' = run.param
          /\ log' = run.log
          /\ out' = [status |-> "ok", raw |-> run.results, grid |-> grid,
                     x |-> reorder(prm, sort_index),
                     y |-> reorder(values, sort_index),
                     w |-> reorder(w, sort_index),
                     k |-> clamp_df(inp.df)]
    /\ ipc' = "done"
    /\ UNCHANGED <<inp, param0>>
    /\ UNCHANGED <<storeVars, quantVars>>

\* param_known and values_known, as pairs: the two have equal length
Known == SeqsUpTo(ThetaVals \X KnownVals, 0, MaxKnown)

InterpInit ==
    /\ ipc = "ready"
    /\ \E theta_grid \in SeqsUpTo(ThetaVals, 1, MaxGrid), method \in Methods,
          kv \in Known, symmetrize \in BOOLEAN, df \in DfVals :
          inp = [theta_grid |-> theta_grid, method |-> method,
                 param_known |-> [i \in 1..Len(kv) |-> kv[i][1]],
                 values_known |-> [i \in 1..Len(kv) |-> kv[i][2]],
                 symmetrize |-> symmetrize, df |-> df]
    /\ param0 = 0
    /\ param = param0
    /\ log = <<>>
    /\ out = NoOut
    /\ file = [exists |-> FALSE, blob |-> {}]
    /\ _meta_data = <<>> /\ pc = <<>> /\ func_dict = <<>> /\ args = <<>>
    /\ atInit = <<>> /\ lastSaved = EmptyDict /\ missed = <<>>
    /\ interleaved = FALSE /\ nsaves = 0
    /\ qpc = "idle" /\ dist = <<>> /\ call = NoCall

InterpNext ==
    \/ form_interpolator_raise
    \/ form_interpolator


(***************************************************************************)
(* Part 3: the quantile decorator (elliptical/decorators.py)               *)
(***************************************************************************)

\* longest input vector / most rows of an input matrix
MaxLen == 3
\* columns of an input matrix
Dims == {1, 2}
\* the entries of x tried, and what the wrapped PDF or CDF may return
XVals == {"0.5", "1.0", "nan"}
OutVals == {"0.2", "nan"}

\* the dist arguments tried
Dists == { <<"n","o","r","m">>,
           <<"G","a","u","s","s","i","a","n">>,
           <<"N","O","R","M","A","L">>,
           <<"T">>,
           <<"S","t","u","d","e","n","t">>,
           <<"c","a","u","c","h","y">>,
           <<"n","o","r","m","a","l","s">>,
           <<"t","t">> }

NormNames == { <<"n","o","r","m">>, <<"g","a","u","s","s","i","a","n">>,
               <<"n","o","r","m","a","l">> }
TNames == { <<"t">>, <<"s","t","u","d","e","n","t">> }

\* str.casefold(), on the letters of the names tried
casefold(str) == [i \in 1..Len(str) |-> lower_char(str[i])]

\* a choice of branch that compares dist as given, without casefold
family_as_given(d) ==
    IF d \in NormNames THEN "norm"
    ELSE IF d \in TNames THEN "t"
    ELSE "ValueError"

\* lines 21 and 46: the branch quantile(dist) takes
family(d) ==
    IF casefold(d) \in NormNames THEN "norm"
    ELSE IF casefold(d) \in TNames THEN "t"
    ELSE "ValueError"

\* scipy's norm.ppf of one entry: 0.5 -> 0, 1 -> +inf, nan -> nan
norm_ppf1(v) == IF v = "0.5" THEN "0.0" ELSE IF v = "1.0" THEN "inf" ELSE "nan"

\* scipy's t.ppf of one entry, for the df > 0 of self.params
t_ppf1(v) == IF v = "0.5" THEN "0.0" ELSE IF v = "1.0" THEN "inf" ELSE "nan"

\* arrays are a shape and the entries in row-major order
ppf(fam, x) ==
    [shape |-> x.shape,
     flat |-> [i \in 1..Len(x.flat) |-> IF fam = "norm" THEN norm_ppf1(x.flat[i])
                                                         ELSE t_ppf1(x.flat[i])]]

ndim(a) == Len(a.shape)

\* q.reshape(1, -1)
reshape_row(a) == [shape |-> <<1, Len(a.flat)>>, flat |-> a.flat]

\* lines 27-28
as_matrix(q) == IF ndim(q) = 1 THEN reshape_row(q) ELSE q

entry(a, i, j) == a.flat[(i - 1) * a.shape[2] + j]

\* a mask of the rows that are NaN in every column
nan_rows_all(q) == [i \in 1..q.shape[1] |-> \A j \in 1..q.shape[2] : entry(q, i, j) = "nan"]

\* np.isnan(q).any(1)
nan_rows(q) == [i \in 1..q.shape[1] |-> \E j \in 1..q.shape[2] : entry(q, i, j) = "nan"]

\* lines 33-34: a float becomes a one-element array
as_array(ret) == IF ret.kind = "scalar" THEN <<ret.val>> ELSE ret.vals

\* line 37: values[mask] = np.nan
masked(values, mask) == [i \in 1..Len(values) |-> IF mask[i] THEN "nan" ELSE values[i]]

\* a return that never extracts the single value
unwrap_never(values) == [kind |-> "array", vals |-> values]

\* line 40: values[0] if len(values) == 1 else values
unwrap(values) ==
    IF Len(values) = 1 THEN [kind |-> "scalar", vals |-> <<values[1]>>]
    ELSE [kind |-> "array", vals |-> values]

\* with_quantile, from the evaluator's return on: the boolean index must be as
\* long as values, or numpy raises IndexError
finish(q, ret) ==
    IF Len(as_array(ret)) # Len(nan_rows(q))
    THEN [kind |-> "IndexError", vals |-> <<>>]
    ELSE unwrap(masked(as_array(ret), nan_rows(q)))

Vector(n) == {[shape |-> <<n>>, flat |-> f] : f \in [1..n -> XVals]}
Matrix(n, d) == {[shape |-> <<n, d>>, flat |-> f] : f \in [1..(n * d) -> XVals]}

Inputs == UNION ({Vector(n) : n \in 1..MaxLen}
                 \cup {Matrix(n, d) : n \in 1..MaxLen, d \in Dims})

\* what func(self, q, log) may return for a q of n rows
Returns(n) ==
    {[kind |-> "scalar", val |-> v, vals |-> <<>>] : v \in OutVals}
    \cup UNION {{[kind |-> "array", val |-> "", vals |-> vs] : vs \in [1..k -> OutVals]} : k \in 1..MaxLen}

\* quantile(dist) with a supported dist: returns the decorator
quantile ==
    /\ qpc = "start"
    /\ family(dist) # "ValueError"
    /\ qpc' = "decorator"
    /\ UNCHANGED <<dist, call>>
    /\ UNCHANGED <<storeVars, interpVars>>

\* quantile(dist) with any other dist: raises ValueError
quantile_raise ==
    /\ qpc = "start"
    /\ family(dist) = "ValueError"
    /\ qpc' = "raised"
    /\ UNCHANGED <<dist, call>>
    /\ UNCHANGED <<storeVars, interpVars>>

\* decorator(func): returns with_quantile
decorator ==
    /\ qpc = "decorator"
    /\ qpc' = "wrapped"
    /\ UNCHANGED <<dist, call>>
    /\ UNCHANGED <<storeVars, interpVars>>

\* with_quantile(self, x, log); ret is what func returns
with_quantile ==
    /\ qpc = "wrapped"
    /\ \E x \in Inputs :
       \E q \in {as_matrix(ppf(family(dist), x))} :
       \E ret \in Returns(q.shape[1]) :
          call' = [x |-> x, q |-> q, ret |-> ret, result |-> finish(q, ret)]
    /\ qpc' = "called"
    /\ UNCHANGED dist
    /\ UNCHANGED <<storeVars, interpVars>>

QuantInit ==
    /\ qpc = "start"
    /\ dist \in Dists
    /\ call = NoCall
    /\ file = [exists |-> FALSE, blob |-> {}]
    /\ _meta_data = <<>> /\ pc = <<>> /\ func_dict = <<>> /\ args = <<>>
    /\ atInit = <<>> /\ lastSaved = EmptyDict /\ missed = <<>>
    /\ interleaved = FALSE /\ nsaves = 0
    /\ ipc = "idle" /\ inp = <<>> /\ param0 = 0 /\ param = 0
    /\ log = <<>> /\ out = NoOut

QuantNext ==
    \/ quantile
    \/ quantile_raise
    \/ decorator
    \/ with_quantile

(***************************************************************************)
(* The specifications: one per component, the other components at rest     *)
(***************************************************************************)

vars == <<storeVars, interpVars, quantVars>>

SpecStore == StoreInit /\ [][StoreNext]_vars
SpecInterp == InterpInit /\ [][InterpNext]_vars
SpecQuantile == QuantInit /\ [][QuantNext]_vars

(***************************************************************************)
(* Properties of the function store                                        *)
(***************************************************************************)

\* d[n], or "absent"
item(d, n) == IF n \in DOMAIN d THEN d[n] ELSE "absent"

\* instance k completes its save in this step
Writes(k) == pc[k] = "loaded" /\ pc'[k] = "idle"

\* C4: as long as no save starts while another is running, an instance
\* constructed from the file as it is now returns from load_copula_data, for
\* every name ever saved, the callable most recently saved under that name
C4_RoundTrip ==
    ~interleaved =>
        \A i \in Inst : atInit[i] = file =>
            \A n \in DOMAIN lastSaved : load_copula_data(i, n) = lastSaved[n]

\* C4 witness: two names were saved one after the other and an instance
\* constructed afterwards loads both
C4_Witness ==
    /\ ~interleaved
    /\ DOMAIN lastSaved = Names
    /\ \E i \in Inst : /\ atInit[i] = file
                       /\ pc[i] = "idle"
                       /\ \A n \in Names : load_copula_data(i, n) = lastSaved[n]

\* C9 as stated: whenever a save completes after another save, of a different
\* name, wrote while it was between its load and its write, the file lacks
\* that other name afterwards
C9_Original ==
    [][\A k \in Inst : Writes(k) =>
          \A n \in missed[k] \ {args[k][1]} : n \notin DOMAIN pickle_load(file'.blob)]_vars

\* C9 amended: a save that completes after other saves wrote between its load
\* and its write puts back, for each of their names, what it had loaded (the
\* name is absent if it was absent then, and keeps its older callable
\* otherwise); a save with no write between its load and its write changes
\* no other name's entry
C9_LostUpdate ==
    [][\A k \in Inst : Writes(k) =>
          /\ \A n \in missed[k] \ {args[k][1]} :
                item(pickle_load(file'.blob), n) = item(func_dict[k], n)
          /\ missed[k] = {} =>
                \A n \in DOMAIN _load_func_dict \ {args[k][1]} :
                    item(pickle_load(file'.blob), n) = _load_func_dict[n]]_vars

\* C9 witness: after interleaved saves the file lacks a name that was saved
C9_Witness ==
    /\ interleaved
    /\ \A i \in Inst : pc[i] = "idle"
    /\ \E n \in DOMAIN lastSaved : n \notin DOMAIN _load_func_dict

Fitted == ipc = "done" /\ out.status = "ok"

Distinct(seq) == \A i, j \in 1..Len(seq) : i # j => seq[i] # seq[j]

\* the grid is symmetric about 0
SymmetricGrid(t) == \A i \in 1..Len(t) : t[i] = -t[Len(t) + 1 - i]

\* the (parameter, value, weight) points handed to the spline fitter
Points == {<<out.x[r], out.y[r], out.w[r]>> : r \in 1..Len(out.x)}

Anchors == {<<inp.param_known[j], inp.values_known[j], AnchorWeight>> : j \in 1..Len(inp.param_known)}

FreeIndex == {i \in 1..Len(inp.theta_grid) : inp.theta_grid[i] \notin Range(inp.param_known)}

Ascending == \A r \in 1..(Len(out.x) - 1) : out.x[r] < out.x[r + 1]

\* C1: the call raises exactly when the lower-cased method is neither
\* 'spearman' nor 'kendall', and then nothing was sampled: no _set_param, no
\* copula.random, the shape parameter as before the call
C1_MethodCheck ==
    ipc = "done" =>
        /\ (out.status = "ValueError") <=> (lower(inp.method) \notin {Spearman, Kendall})
        /\ out.status = "ValueError" => (log = <<>> /\ param = param0)

\* C1 witness: a call with method 'pearson' raised
C1_Witness ==
    /\ ipc = "done"
    /\ inp.method = <<"p","e","a","r","s","o","n">>
    /\ out.status = "ValueError"
    /\ log = <<>>

\* C6 as stated: with symmetrize and a grid symmetric about 0, the value at
\* index i is the negative of the value at the mirrored index
C6_OddSymmetric ==
    (Fitted /\ inp.symmetrize /\ SymmetricGrid(inp.theta_grid)) =>
        \A i \in 1..Len(out.grid) : out.grid[i] = -out.grid[Len(out.grid) + 1 - i]

\* C7: a completed call made, for each value of alpha_grid in grid order, one
\* _set_param of that value followed by one copula.random(nsim), and nothing
\* else; the shape parameter is left at the last value of alpha_grid
C7_SetThenSample ==
    Fitted =>
        LET alpha_grid == _backward_transfer(inp.theta_grid)
        IN /\ Len(log) = 2 * Len(alpha_grid)
           /\ \A i \in 1..Len(alpha_grid) :
                 /\ log[2 * i - 1] = <<"_set_param", alpha_grid[i]>>
                 /\ log[2 * i] = <<"random", nsim>>
           /\ param = alpha_grid[Len(alpha_grid)]

\* C7 witness: a call over a grid of at least two different values completed
C7_Witness ==
    /\ Fitted
    /\ Len(inp.theta_grid) >= 2
    /\ inp.theta_grid[1] # inp.theta_grid[2]
    /\ Len(log) = 2 * Len(inp.theta_grid)
    /\ param # param0

\* C8 as stated: with distinct grid values and distinct known parameters the
\* points are the anchors with weight 999 and, for every grid value that is
\* no known parameter, its own sampled estimate with weight 1; the arrays
\* have equal length and are strictly ascending in the parameter
C8_Original ==
    (Fitted /\ Distinct(inp.theta_grid) /\ Distinct(inp.param_known)) =>
        /\ Points = Anchors \cup {<<inp.theta_grid[i], out.raw[i], 1>> : i \in FreeIndex}
        /\ Len(out.x) = Len(inp.param_known) + Cardinality(FreeIndex)
        /\ Len(out.y) = Len(out.x) /\ Len(out.w) = Len(out.x)
        /\ Ascending

\* C8 amended: as C8, the value of a grid point being its own sampled
\* estimate when symmetrize is false and its symmetrized estimate,
\* sign(theta_i) * |r_i| + |r_mirror(i)| / 2, when symmetrize is true
C8_SplineData ==
    (Fitted /\ Distinct(inp.theta_grid) /\ Distinct(inp.param_known)) =>
        LET n == Len(out.raw)
            value(i) == IF inp.symmetrize
                        THEN (sign(inp.theta_grid[i]) * abs(out.raw[i])) + (abs(out.raw[n + 1 - i]) \div 2)
                        ELSE out.raw[i]
        IN /\ Points = Anchors \cup {<<inp.theta_grid[i], value(i), 1>> : i \in FreeIndex}
           /\ Len(out.x) = Len(inp.param_known) + Cardinality(FreeIndex)
           /\ Len(out.y) = Len(out.x) /\ Len(out.w) = Len(out.x)
           /\ Ascending

\* C8 witness: an anchor that is also a grid value, placed between two
\* sampled points
C8_Witness ==
    /\ Fitted
    /\ Distinct(inp.theta_grid)
    /\ Len(inp.param_known) = 1
    /\ inp.param_known[1] \in Range(inp.theta_grid)
    /\ Len(out.x) = 3
    /\ out.w = <<1, AnchorWeight, 1>>

(***************************************************************************)
(* Properties of the quantile decorator                                    *)
(***************************************************************************)

\* the wrapped call returned (numpy raised no IndexError)
Returned == qpc = "called" /\ call.result.kind # "IndexError"

\* the number of values func returned
NumValues == IF call.ret.kind = "scalar" THEN 1 ELSE Len(call.ret.vals)

\* the value func returned at position i
Value(i) == IF call.ret.kind = "scalar" THEN call.ret.val ELSE call.ret.vals[i]

\* row i of the matrix m has v in some column
RowHas(m, i, S) == \E j \in 1..m.shape[2] : m.flat[(i - 1) * m.shape[2] + j] \in S

\* x as the matrix of rows the call works on
XRows == IF Len(call.x.shape) = 1
         THEN [shape |-> <<1, Len(call.x.flat)>>, flat |-> call.x.flat]
         ELSE call.x

\* C2 as stated, on its example: for x = [0.5, 1.0, nan] under 'norm' the
\* output is NaN at every row of x that holds 1.0 or nan
C2_Original ==
    (Returned /\ family(dist) = "norm" /\ call.x.flat = <<"0.5", "1.0", "nan">>) =>
        \A i \in 1..XRows.shape[1] :
            RowHas(XRows, i, {"1.0", "nan"}) => call.result.vals[i] = "nan"

\* C2 amended: the output is NaN at every row of q holding a NaN and is what
\* func returned at every other row; x = [0.5, 1.0, nan] has the quantiles
\* [0, +inf, NaN], so that a row of x holding 1.0 and no nan keeps func's value
C2_NanRows ==
    Returned =>
        /\ \A i \in 1..call.q.shape[1] :
              call.result.vals[i] = IF RowHas(call.q, i, {"nan"}) THEN "nan" ELSE Value(i)
        /\ call.x.flat = <<"0.5", "1.0", "nan">> => call.q.flat = <<"0.0", "inf", "nan">>
        /\ \A i \in 1..XRows.shape[1] :
              RowHas(XRows, i, {"nan"}) <=> RowHas(call.q, i, {"nan"})

\* C2 witness: x = [[0.5], [1.0], [nan]] under 'norm', func returns 0.2 for
\* every row: only the last output is NaN
C2_Witness ==
    /\ Returned
    /\ dist = <<"n","o","r","m">>
    /\ call.x = [shape |-> <<3, 1>>, flat |-> <<"0.5", "1.0", "nan">>]
    /\ call.ret.vals = <<"0.2", "0.2", "0.2">>
    /\ call.result = [kind |-> "array", vals |-> <<"0.2", "0.2", "nan">>]

\* C3: quantile(dist) raises exactly when casefold(dist) is none of norm,
\* gaussian, normal, t, student, and it raises in quantile(dist) itself: no
\* function was wrapped and no wrapped call was made
C3_DecorationTime ==
    qpc # "start" =>
        /\ (qpc = "raised") <=> (casefold(dist) \notin (NormNames \cup TNames))
        /\ qpc = "raised" => call = NoCall
        /\ qpc \in {"wrapped", "called"} => casefold(dist) \in (NormNames \cup TNames)

\* C3 witness: quantile('cauchy') raised
C3_Witness ==
    /\ qpc = "raised"
    /\ dist = <<"c","a","u","c","h","y">>
    /\ call = NoCall

\* C5: a call that returns gives a bare scalar when func returned one value
\* (a bare scalar or a one-element array), as it does for a one-element
\* input vector, and otherwise the array of as many values as func returned
C5_ScalarUnwrap ==
    Returned =>
        /\ NumValues = 1 => (call.result.kind = "scalar" /\ Len(call.result.vals) = 1)
        /\ NumValues > 1 => (call.result.kind = "array" /\ Len(call.result.vals) = NumValues)
        /\ call.x.shape = <<1>> => call.result.kind = "scalar"

\* C5 witness: a one-element input vector, func returns a bare scalar
C5_Witness ==
    /\ Returned
    /\ call.x.shape = <<1>>
    /\ call.ret.kind = "scalar"
    /\ call.result = [kind |-> "scalar", vals |-> <<call.ret.val>>]
====
